---- MODULE Spec2Model ----
(***************************************************************************)
(* Model of atomic_reactor/plugins/pre_pull_base_image.py                  *)
(* (PullBaseImagePlugin): run() walks the sorted parent images, resolves   *)
(* each one, and pulls and uniquely tags it against a local image store    *)
(* that another build may clean up concurrently; and of                    *)
(* atomic_reactor/plugins/post_pulp_pull.py (PulpPullPlugin):              *)
(* retry_if_not_found polls the registry for the digests of the image and  *)
(* run() pulls the image when the digests do not settle its image ID.      *)
(***************************************************************************)
EXTENDS Naturals, Sequences, FiniteSets, TLC

VARIABLES
    cfg,                  \* plugin arguments and workflow inputs (fixed during a run)
    env,                  \* registry content seen by the manifest-list resolver
    pc,                   \* position of run(): "loop", "pull", "tag", "done"
    idx,                  \* enumerate() index of the parent being processed (the nonce)
    parent_images,        \* workflow.builder.parent_images
    base_image,           \* workflow.builder.base_image
    image,                \* local `image` of _pull_and_tag_image
    attempt,              \* iterations of `for _ in range(20)` started in this call
    first_library_exc,    \* local `first_library_exc` of _pull_and_tag_image
    pulled_base_images,   \* workflow.pulled_base_images (the ledger)
    store,                \* names present in the shared local image store
    manifest_list_cache,  \* self.manifest_list_cache
    raised,               \* exception that ended run(), NoExc if none
    fetches,              \* registry calls made by _get_manifest_list, in order
    pulledRefs,           \* every reference a pull was attempted on in this run
    hist,                 \* per-call observation counters of _pull_and_tag_image
    plugin,               \* PulpPullPlugin: timeout, retry_delay and the expect_* fields
    ppc,                  \* position of retry_if_not_found: "idle", "call", "sleep", "done"
    start,                \* local `start` of retry_if_not_found
    now,                  \* the wall clock read by time()
    poll,                 \* observation counters of retry_if_not_found
    poll_result,          \* what retry_if_not_found returned or raised
    wf,                   \* workflow inputs of PulpPullPlugin.run
    rpc,                  \* position of PulpPullPlugin.run: "idle", "start", "poll",
                          \* "pull", "inspect", "done"
    image_id,             \* workflow.builder.image_id
    media_types,          \* local `media_types` of run
    run_result,           \* what run returned or raised
    deferred,             \* names handed to defer_removal
    crane                 \* pulls and inspections run() made on the runtime

runVars == <<cfg, env, pc, idx, parent_images, base_image, image, attempt,
             first_library_exc, pulled_base_images, store, manifest_list_cache,
             raised, fetches, pulledRefs, hist>>

pollVars == <<plugin, ppc, start, now, poll, poll_result>>

postVars == <<wf, rpc, image_id, media_types, run_result, deferred, crane>>

vars == <<runVars, pollVars, postVars>>

(***************************************************************************)
(* Bounds and program constants                                            *)
(***************************************************************************)
MaxParents == 2          \* parent images of one build
\* faulty variants of the attempt budget: one iteration too many, half the budget
MaxAttempts_OffByOne == 20 + 1
MaxAttempts_Halved == 20 \div 2
MaxAttempts == 20        \* range(20)

None == "None"           \* Python's None where the value is a string

(***************************************************************************)
(* ImageName (atomic_reactor.util): registry / namespace / repo / tag,     *)
(* a digest being kept in the tag field as "sha256:...".                   *)
(***************************************************************************)
ImageName(registry, namespace, repo, tag) ==
    [registry |-> registry, namespace |-> namespace, repo |-> repo, tag |-> tag]

NoImage == ImageName(None, None, None, None)

Digests == {"sha256:d0", "sha256:t1", "sha256:amd64", "sha256:ppc64le", "sha256:s390x"}

\* ':' in self.tag
IsDigest(tag) == tag \in Digests

get_repo(img) ==
    IF img.namespace # None THEN img.namespace \o "/" \o img.repo ELSE img.repo

\* ImageName.to_str(tag=withTag)
to_str_tag(img, withTag) ==
    LET r == get_repo(img)
        t == IF withTag /\ img.tag # None
             THEN IF IsDigest(img.tag) THEN r \o "@" \o img.tag ELSE r \o ":" \o img.tag
             ELSE r
    IN  IF img.registry # None THEN img.registry \o "/" \o t ELSE t

to_str(img) == to_str_tag(img, TRUE)

(***************************************************************************)
(* Exceptions                                                              *)
(***************************************************************************)
Exc(type, msg, pull) == [type |-> type, msg |-> msg, pull |-> pull]
NoExc == Exc("None", "", 0)
\* the RetryGeneratorException raised by the n-th failing pull of the current call
PullExc(n) == Exc("RetryGeneratorException", "pull failed", n)

(***************************************************************************)
(* Registry and configuration collaborators                                *)
(***************************************************************************)
ML(found, manifests) == [found |-> found, manifests |-> manifests]
NoML == ML(FALSE, <<>>)
Manifest(arch) == [architecture |-> arch, digest |-> "sha256:" \o arch]

\* util.get_manifest_list(image, image.registry, insecure): the registry's
\* answer, which in this model depends on the tag or digest asked for
get_manifest_list(img) == env.registry[img.tag]

FetchML(img) == [op |-> "manifest_list", image |-> img]
FetchConfig(img) == [op |-> "config", image |-> img]

\* docker_tag = "%s-%s" % (version, release)
docker_tag(labels) == labels.version \o "-" \o labels.release

Ret(cache, log, value, exc) == [cache |-> cache, log |-> log, value |-> value, exc |-> exc]

\* lines 217-226 when the config blob is not fetched or lacks a label:
\*   "HTTPError"   get_config_from_registry raises HTTPError, which carries the response
\*   "Timeout", "RetryError"   it raises an exception whose response is None, so that
\*                 ex.response.status_code in the handler (line 222) fails
\*   "nolabels"    the blob has "Labels": null
\*   "norelease"   the blob has labels, but no 'release' label
ConfigFailure(outcome) ==
    CASE outcome = "HTTPError" ->
           Exc("RuntimeError", "Unable to fetch config for base image", 0)
      [] outcome \in {"Timeout", "RetryError"} ->
           Exc("AttributeError", "'NoneType' object has no attribute 'status_code'", 0)
      [] outcome = "nolabels" ->
           Exc("TypeError", "'NoneType' object is not subscriptable", 0)
      [] outcome = "norelease" ->
           Exc("KeyError", "release", 0)

\* faulty variant: the tag is adjusted but the manifest list is not asked for again
DigestFallback_NoRefetch(cache, log, img) ==
    LET log2 == Append(log, FetchConfig(img))
    IN  CASE env.config.outcome # "ok" ->
               Ret(cache, log2, NoML, ConfigFailure(env.config.outcome))
          [] OTHER ->
               LET adjusted == [img EXCEPT !.tag = docker_tag(env.config.labels)]
               IN  Ret((adjusted :> NoML) @@ cache, log2, NoML, NoExc)

\* the fallback of _get_manifest_list for a digest whose direct fetch found nothing
DigestFallback(cache, log, img) ==
    LET log2 == Append(log, FetchConfig(img))
    IN  CASE env.config.outcome # "ok" ->
               Ret(cache, log2, NoML, ConfigFailure(env.config.outcome))
          [] OTHER ->
               LET adjusted == [img EXCEPT !.tag = docker_tag(env.config.labels)]
                   ml == get_manifest_list(adjusted)
               IN  Ret((adjusted :> ml) @@ cache, Append(log2, FetchML(adjusted)), ml, NoExc)

_get_manifest_list(cache, log, img) ==
    IF img \in DOMAIN cache
    THEN Ret(cache, log, cache[img], NoExc)
    ELSE LET ml == get_manifest_list(img)
             log1 == Append(log, FetchML(img))
         IN  IF IsDigest(img.tag) /\ ~ml.found
             THEN DigestFallback(cache, log1, img)
             ELSE Ret((img :> ml) @@ cache, log1, ml, NoExc)

Arches(ml) == {ml.manifests[i].architecture : i \in DOMAIN ml.manifests}

\* platform_to_arch[platform] / arch_to_platform[arch] over the platform descriptors
HasPlatform(p) == \E d \in cfg.descriptors.pairs : d[1] = p
HasArch(a) == \E d \in cfg.descriptors.pairs : d[2] = a
platform_to_arch(p) == (CHOOSE d \in cfg.descriptors.pairs : d[1] = p)[2]
arch_to_platform(a) == (CHOOSE d \in cfg.descriptors.pairs : d[2] = a)[1]

SeqToSet(s) == {s[i] : i \in DOMAIN s}

\* faulty variant: the manifest list must list the expected architectures and no other
CheckArches_Exact(r) ==
    LET expected == SeqToSet(cfg.platforms)
    IN  CASE ~r.value.found ->
               [r EXCEPT !.exc = Exc("RuntimeError", "Unable to fetch manifest list for base image", 0)]
          [] \E p \in expected : ~HasPlatform(p) ->
               [r EXCEPT !.exc = Exc("KeyError", "platform", 0)]
          [] {platform_to_arch(p) : p \in expected} # Arches(r.value) ->
               [r EXCEPT !.exc = Exc("AssertionError", "Missing arches in manifest list for base image", 0)]
          [] OTHER -> r

\* the checks of _validate_platforms_in_image once the manifest list is known
CheckArches(r) ==
    LET expected == SeqToSet(cfg.platforms)
    IN  CASE ~r.value.found ->
               [r EXCEPT !.exc = Exc("RuntimeError", "Unable to fetch manifest list for base image", 0)]
          [] \E p \in expected : ~HasPlatform(p) ->
               [r EXCEPT !.exc = Exc("KeyError", "platform", 0)]
          [] ~({platform_to_arch(p) : p \in expected} \subseteq Arches(r.value)) ->
               [r EXCEPT !.exc = Exc("AssertionError", "Missing arches in manifest list for base image", 0)]
          [] OTHER -> r

\* faulty variant: a single expected platform is validated like several
_validate_platforms_in_image_NoSingleSkip(cache, log, img) ==
    CASE Len(cfg.platforms) = 0 -> Ret(cache, log, NoML, NoExc)
      [] img.registry = None -> Ret(cache, log, NoML, NoExc)
      [] ~cfg.descriptors.defined -> Ret(cache, log, NoML, NoExc)
      [] OTHER ->
           LET r == _get_manifest_list(cache, log, img)
           IN  IF r.exc # NoExc THEN r ELSE CheckArches(r)

_validate_platforms_in_image(cache, log, img) ==
    CASE Len(cfg.platforms) = 0 -> Ret(cache, log, NoML, NoExc)
      [] Len(cfg.platforms) = 1 -> Ret(cache, log, NoML, NoExc)
      [] img.registry = None -> Ret(cache, log, NoML, NoExc)
      [] ~cfg.descriptors.defined -> Ret(cache, log, NoML, NoExc)
      [] OTHER ->
           LET r == _get_manifest_list(cache, log, img)
           IN  IF r.exc # NoExc THEN r ELSE CheckArches(r)

\* arch_digests[arch]: the digest of the last manifest of that architecture
ArchDigest(ml, arch) ==
    LET i == CHOOSE i \in DOMAIN ml.manifests :
                 /\ ml.manifests[i].architecture = arch
                 /\ \A j \in DOMAIN ml.manifests :
                        ml.manifests[j].architecture = arch => j <= i
    IN  ml.manifests[i].digest

\* ImageName.parse(image.to_str(tag=False) + '@' + digest)
WithDigest(img, digest) == [img EXCEPT !.tag = digest]

\* faulty variant: the digest is substituted whether or not the platform is present
SelectImage_Always(ml, img, platform, last) ==
    IF ~ml.found \/ Arches(ml) = {} \/ ~cfg.descriptors.defined
       \/ (\E a \in Arches(ml) : ~HasArch(a))
    THEN NoImage
    ELSE WithDigest(img, ArchDigest(ml, last))

\* `last` is the architecture that arch_digests.items() yields last
SelectImage(ml, img, platform, last) ==
    IF ~ml.found \/ Arches(ml) = {} \/ ~cfg.descriptors.defined
       \/ (\E a \in Arches(ml) : ~HasArch(a))
    THEN NoImage
    ELSE IF platform \notin {arch_to_platform(a) : a \in Arches(ml)}
         THEN WithDigest(img, ArchDigest(ml, last))
         ELSE NoImage

_get_image_for_different_arch(cache, log, img, platform, last) ==
    LET r == _get_manifest_list(cache, log, img)
    IN  IF r.exc # NoExc
        THEN [r EXCEPT !.value = NoImage]
        ELSE [r EXCEPT !.value = SelectImage(r.value, img, platform, last)]

\* the orders arch_digests.items() may end in
LastChoices(cache, log, img) ==
    LET r == _get_manifest_list(cache, log, img)
    IN  IF r.exc = NoExc /\ r.value.found /\ Arches(r.value) # {}
        THEN Arches(r.value) ELSE {"none"}

(***************************************************************************)
(* Inputs of a run                                                         *)
(***************************************************************************)
ParentRegistry == "reg.example.com"
BuildName == "build-1"                  \* build_json['metadata']['name']

\* the parent images a Dockerfile may name, in the order sorted() gives their strings:
\* "fedora:28" < "org/base@sha256:d0" < "other.example.com/tools:28"
\*             < "reg.example.com/rhel7:28"
Universe ==
    << ImageName(None, None, "fedora", "28"),
       ImageName(None, "org", "base", "sha256:d0"),
       ImageName("other.example.com", None, "tools", "28"),
       ImageName(ParentRegistry, None, "rhel7", "28") >>

\* spec['triggeredBy'][0]['imageChangeBuild']['imageID'], parsed
TriggerImage == ImageName(ParentRegistry, "org", "base", "sha256:t1")

RECURSIVE SortedFrom(_, _)
SortedFrom(S, i) ==
    IF i > Len(Universe) THEN <<>>
    ELSE IF i \in S THEN <<Universe[i]>> \o SortedFrom(S, i + 1)
         ELSE SortedFrom(S, i + 1)

\* sorted(self.workflow.builder.parent_images.keys()), each key parsed
SortedParents == SortedFrom(cfg.parents, 1)

ParentKeys == {to_str(Universe[i]) : i \in cfg.parents}

(***************************************************************************)
(* run(): resolution of one parent, lines 73-83                            *)
(***************************************************************************)
_resolve_base_image ==
    IF cfg.trigger # NoImage THEN cfg.trigger ELSE base_image

\* faulty variant: the configured registry is only filled in, a named one is left alone
_ensure_image_registry_NoCheck(img) ==
    IF cfg.parent_registry # None /\ img.registry = None
    THEN [value |-> [img EXCEPT !.registry = cfg.parent_registry], exc |-> NoExc]
    ELSE [value |-> img, exc |-> NoExc]

\* [value, exc]
_ensure_image_registry(img) ==
    IF cfg.parent_registry # None
    THEN IF img.registry # None /\ img.registry # cfg.parent_registry
         THEN [value |-> img,
               exc |-> Exc("RuntimeError",
                           "Registry specified in dockerfile image doesn't match configured one", 0)]
         ELSE [value |-> [img EXCEPT !.registry = cfg.parent_registry], exc |-> NoExc]
    ELSE [value |-> img, exc |-> NoExc]

\* lines 78-83 for the image `img`; the set ranges over the orders of arch_digests
CheckPlatforms(img) ==
    LET v == _validate_platforms_in_image(manifest_list_cache, fetches, img)
    IN  IF v.exc # NoExc
        THEN {[v EXCEPT !.value = img]}
        ELSE {LET d == _get_image_for_different_arch(v.cache, v.log, img,
                                                     cfg.current_platform, last)
              IN  IF d.exc = NoExc /\ d.value = NoImage THEN [d EXCEPT !.value = img] ELSE d
              : last \in LastChoices(v.cache, v.log, img)}

\* lines 73-75: ImageName.parse(parent), or the resolved base image
ParsedParent(parent) ==
    IF to_str(parent) = cfg.base_image_str THEN _resolve_base_image ELSE parent

\* lines 73-83: the image handed to _pull_and_tag_image, or the exception raised
ResolveParent(parent) ==
    LET e == _ensure_image_registry(ParsedParent(parent))
    IN  IF e.exc # NoExc
        THEN {Ret(manifest_list_cache, fetches, e.value, e.exc)}
        ELSE IF cfg.check_platforms
             THEN CheckPlatforms(e.value)
             ELSE {Ret(manifest_list_cache, fetches, e.value, NoExc)}

NoTag == [src |-> None, dst |-> None, present |-> FALSE]

NewCall(img) ==
    [result |-> "running", start |-> img, ledger0 |-> pulled_base_images,
     nPulls |-> 0, nPullFails |-> 0, nTags |-> 0, nNotFound |-> 0, nRewrites |-> 0,
     lastPull |-> NoImage, lastPullOk |-> FALSE,
     firstFail |-> NoExc, pulledOk |-> {}, tagged |-> NoTag, tagError |-> FALSE]

NoCall == [NewCall(NoImage) EXCEPT !.result = "none", !.ledger0 = {}]

\* for nonce, parent in enumerate(sorted(...)): up to the call of _pull_and_tag_image
BeginParent ==
    /\ pc = "loop"
    /\ idx < Len(SortedParents)
    /\ \E r \in ResolveParent(SortedParents[idx + 1]) :
         /\ manifest_list_cache' = r.cache
         /\ fetches' = r.log
         /\ IF r.exc # NoExc
            THEN /\ pc' = "done"
                 /\ raised' = r.exc
                 /\ hist' = NoCall
                 /\ UNCHANGED <<image, attempt, first_library_exc>>
            ELSE /\ pc' = "pull"
                 /\ image' = r.value                 \* image = image.copy()
                 /\ attempt' = 0
                 /\ first_library_exc' = NoExc
                 /\ hist' = NewCall(r.value)
                 /\ UNCHANGED raised
    /\ UNCHANGED <<pollVars, postVars>>
    /\ UNCHANGED <<cfg, env, idx, parent_images, base_image, pulled_base_images,
                   store, pulledRefs>>

(***************************************************************************)
(* _pull_and_tag_image, one step per collaborator call                     *)
(***************************************************************************)
\* faulty variant: the nonce is left out of the unique name
new_image_NoNonce(nonce) == ImageName(None, None, BuildName, None)

\* ImageName(repo=unique_id, tag=nonce)
new_image(nonce) == ImageName(None, None, BuildName, ToString(nonce))

UniqueNames == {to_str(new_image(n)) : n \in 0..Len(Universe)}

\* faulty variant: the pulled name is not recorded until the tag succeeds
PullOk_NoRecord ==
    /\ pc = "pull"
    /\ attempt < MaxAttempts
    /\ attempt' = attempt + 1
    /\ store' = store \cup {to_str(image)}
    /\ pulledRefs' = pulledRefs \cup {image}
    /\ hist' = [hist EXCEPT !.nPulls = @ + 1, !.lastPull = image, !.lastPullOk = TRUE,
                            !.pulledOk = @ \cup {to_str(image)}]
    /\ pc' = "tag"
    /\ UNCHANGED <<pollVars, postVars>>
    /\ UNCHANGED <<cfg, env, idx, parent_images, base_image, image, first_library_exc,
                   manifest_list_cache, raised, fetches, pulled_base_images>>

\* tasker.pull_image(image) succeeds; line 162 records the name in the ledger
PullOk ==
    /\ pc = "pull"
    /\ attempt < MaxAttempts
    /\ attempt' = attempt + 1
    /\ store' = store \cup {to_str(image)}
    /\ pulled_base_images' = pulled_base_images \cup {to_str(image)}
    /\ pulledRefs' = pulledRefs \cup {image}
    /\ hist' = [hist EXCEPT !.nPulls = @ + 1, !.lastPull = image, !.lastPullOk = TRUE,
                            !.pulledOk = @ \cup {to_str(image)}]
    /\ pc' = "tag"
    /\ UNCHANGED <<pollVars, postVars>>
    /\ UNCHANGED <<cfg, env, idx, parent_images, base_image, image, first_library_exc,
                   manifest_list_cache, raised, fetches>>

\* faulty variant: the retry is made on the unchanged reference
OnPullFailure_NoRewrite(img, first, exc) ==
    IF first # NoExc
    THEN [raise |-> TRUE, exc |-> first, image |-> img, first |-> first]
    ELSE IF img.namespace # None
         THEN [raise |-> TRUE, exc |-> exc, image |-> img, first |-> first]
         ELSE [raise |-> FALSE, exc |-> NoExc, image |-> img, first |-> exc]

\* faulty variant: the latest failure is raised instead of the remembered one
OnPullFailure_RaiseLatest(img, first, exc) ==
    IF first # NoExc \/ img.namespace # None
    THEN [raise |-> TRUE, exc |-> exc, image |-> img, first |-> first]
    ELSE [raise |-> FALSE, exc |-> NoExc,
          image |-> [img EXCEPT !.namespace = "library"], first |-> exc]

\* faulty variant: the first failure is not remembered across the namespace retry
OnPullFailure_ForgetFirst(img, first, exc) ==
    IF img.namespace # None
    THEN [raise |-> TRUE, exc |-> exc, image |-> img, first |-> NoExc]
    ELSE [raise |-> FALSE, exc |-> NoExc,
          image |-> [img EXCEPT !.namespace = "library"], first |-> NoExc]

\* lines 163-179: what the handler of RetryGeneratorException does with `exc`
\* [raise, exc, image, first]
OnPullFailure(img, first, exc) ==
    IF first # NoExc
    THEN [raise |-> TRUE, exc |-> first, image |-> img, first |-> first]
    ELSE IF img.namespace # None
         THEN [raise |-> TRUE, exc |-> exc, image |-> img, first |-> first]
         ELSE [raise |-> FALSE, exc |-> NoExc,
               image |-> [img EXCEPT !.namespace = "library"], first |-> exc]

\* faulty variant: a failed pull does not use up an iteration of range(20)
PullFail_FreeRetry ==
    /\ pc = "pull"
    /\ attempt < MaxAttempts
    /\ pulledRefs' = pulledRefs \cup {image}
    /\ LET exc == PullExc(hist.nPullFails + 1)
           h == OnPullFailure(image, first_library_exc, exc)
       IN  /\ image' = h.image
           /\ first_library_exc' = h.first
           /\ raised' = h.exc
           /\ pc' = IF h.raise THEN "done" ELSE "pull"
           /\ hist' = [hist EXCEPT !.nPulls = @ + 1, !.nPullFails = @ + 1,
                                   !.lastPull = image, !.lastPullOk = FALSE,
                                   !.firstFail = IF @ = NoExc THEN exc ELSE @,
                                   !.nRewrites = IF h.image # image THEN @ + 1 ELSE @,
                                   !.result = IF h.raise THEN "raised" ELSE @]
    /\ UNCHANGED <<pollVars, postVars>>
    /\ UNCHANGED <<cfg, env, idx, parent_images, base_image, pulled_base_images, store,
                   manifest_list_cache, fetches, attempt>>

\* tasker.pull_image(image) raises RetryGeneratorException
PullFail ==
    /\ pc = "pull"
    /\ attempt < MaxAttempts
    /\ attempt' = attempt + 1
    /\ pulledRefs' = pulledRefs \cup {image}
    /\ LET exc == PullExc(hist.nPullFails + 1)
           h == OnPullFailure(image, first_library_exc, exc)
       IN  /\ image' = h.image
           /\ first_library_exc' = h.first
           /\ raised' = h.exc
           /\ pc' = IF h.raise THEN "done" ELSE "pull"
           /\ hist' = [hist EXCEPT !.nPulls = @ + 1, !.nPullFails = @ + 1,
                                   !.lastPull = image, !.lastPullOk = FALSE,
                                   !.firstFail = IF @ = NoExc THEN exc ELSE @,
                                   !.nRewrites = IF h.image # image THEN @ + 1 ELSE @,
                                   !.result = IF h.raise THEN "raised" ELSE @]
    /\ UNCHANGED <<pollVars, postVars>>
    /\ UNCHANGED <<cfg, env, idx, parent_images, base_image, pulled_base_images, store,
                   manifest_list_cache, fetches>>

TooManyAttempts == Exc("RuntimeError", "too many attempts to pull and tag image", 0)
RegistryMismatch ==
    Exc("RuntimeError", "Registry specified in dockerfile image doesn't match configured one", 0)
TagFailure == Exc("RuntimeError", "Failed to tag image", 0)

\* range(20) is used up: lines 202-204
Exhausted ==
    /\ pc = "pull"
    /\ attempt = MaxAttempts
    /\ raised' = TooManyAttempts
    /\ pc' = "done"
    /\ hist' = [hist EXCEPT !.result = "raised"]
    /\ UNCHANGED <<pollVars, postVars>>
    /\ UNCHANGED <<cfg, env, idx, parent_images, base_image, image, attempt,
                   first_library_exc, pulled_base_images, store, manifest_list_cache,
                   fetches, pulledRefs>>

\* tasker.tag_image(image, new_image) succeeds; _pull_and_tag_image returns and
\* run() goes on with lines 86-89
TagOk ==
    /\ pc = "tag"
    /\ to_str(image) \in store
    /\ LET new == new_image(idx)
           response == to_str(new)
           parent == to_str(SortedParents[idx + 1])
       IN  /\ pulled_base_images' = pulled_base_images \cup {response}
           /\ store' = store \cup {response}
           /\ parent_images' = [parent_images EXCEPT ![parent] = to_str(new)]
           /\ base_image' = IF parent = cfg.base_image_str THEN new ELSE base_image
           /\ hist' = [hist EXCEPT !.nTags = @ + 1, !.result = "returned",
                                   !.tagged = [src |-> to_str(image), dst |-> response,
                                               present |-> to_str(image) \in store]]
    /\ idx' = idx + 1
    /\ pc' = IF idx + 1 = Len(SortedParents) THEN "done" ELSE "loop"
    /\ UNCHANGED <<pollVars, postVars>>
    /\ UNCHANGED <<cfg, env, image, attempt, first_library_exc, manifest_list_cache,
                   raised, fetches, pulledRefs>>

\* faulty variant: NotFound from the tag step is not caught
TagNotFound_Fatal ==
    /\ pc = "tag"
    /\ to_str(image) \notin store
    /\ pc' = "done"
    /\ raised' = Exc("NotFound", "No such image", 0)
    /\ hist' = [hist EXCEPT !.nTags = @ + 1, !.nNotFound = @ + 1, !.result = "raised"]
    /\ UNCHANGED <<pollVars, postVars>>
    /\ UNCHANGED <<cfg, env, idx, parent_images, base_image, image, attempt,
                   first_library_exc, pulled_base_images, store, manifest_list_cache,
                   fetches, pulledRefs>>

\* tasker.tag_image raises docker.errors.NotFound: lines 195-200
TagNotFound ==
    /\ pc = "tag"
    /\ to_str(image) \notin store
    /\ pc' = "pull"
    /\ hist' = [hist EXCEPT !.nTags = @ + 1, !.nNotFound = @ + 1]
    /\ UNCHANGED <<pollVars, postVars>>
    /\ UNCHANGED <<cfg, env, idx, parent_images, base_image, image, attempt,
                   first_library_exc, pulled_base_images, store, manifest_list_cache,
                   raised, fetches, pulledRefs>>

\* faulty variant: every tag failure is retried like NotFound
TagError_Retried ==
    /\ pc = "tag"
    /\ pc' = "pull"
    /\ hist' = [hist EXCEPT !.nTags = @ + 1, !.tagError = TRUE]
    /\ UNCHANGED <<pollVars, postVars>>
    /\ UNCHANGED <<cfg, env, idx, parent_images, base_image, image, attempt,
                   first_library_exc, pulled_base_images, store, manifest_list_cache,
                   raised, fetches, pulledRefs>>

\* tasker.tag_image raises anything else: it is not caught
TagError ==
    /\ pc = "tag"
    /\ raised' = TagFailure
    /\ pc' = "done"
    /\ hist' = [hist EXCEPT !.nTags = @ + 1, !.tagError = TRUE, !.result = "raised"]
    /\ UNCHANGED <<pollVars, postVars>>
    /\ UNCHANGED <<cfg, env, idx, parent_images, base_image, image, attempt,
                   first_library_exc, pulled_base_images, store, manifest_list_cache,
                   fetches, pulledRefs>>

\* another build sharing the store finishes and removes an image it pulled
OtherBuildCleanup ==
    /\ pc # "done"
    /\ \E name \in store \ UniqueNames : store' = store \ {name}
    /\ UNCHANGED <<pollVars, postVars>>
    /\ UNCHANGED <<cfg, env, pc, idx, parent_images, base_image, image, attempt,
                   first_library_exc, pulled_base_images, manifest_list_cache, raised,
                   fetches, pulledRefs, hist>>

(***************************************************************************)
(* PulpPullPlugin.retry_if_not_found (post_pulp_pull.py), one step per     *)
(* blocking call: the lookup with what follows it up to the timeout check, *)
(* and the sleep.  Times are whole seconds.                                *)
(***************************************************************************)
not_found == 404         \* requests.codes.not_found
forbidden == 403         \* requests.codes.forbidden
DefaultTimeout == 1200   \* timeout=1200
DefaultRetryDelay == 30  \* retry_delay=30

MaxTimeout == 3          \* largest timeout a run is configured with
MaxDelay == 2            \* largest retry_delay a run is configured with
MaxLookupTime == 1       \* longest time one lookup takes

ManifestDigest(v1, v2, v2_list) == [v1 |-> v1, v2 |-> v2, v2_list |-> v2_list]
NoDigests == ManifestDigest(FALSE, FALSE, FALSE)

\* what func(*args, **kwargs) does: it returns digests or raises an HTTPError
Returns(d) == [kind |-> "digests", status |-> 0, digests |-> d]
HTTPError(status) == [kind |-> "HTTPError", status |-> status, digests |-> NoDigests]
NoResponse == [kind |-> "none", status |-> 0, digests |-> NoDigests]

Statuses == {not_found, forbidden, 401, 500}
DigestSets == {ManifestDigest(v1, v2, l) : v1, v2, l \in BOOLEAN}

Plugin(timeout, retry_delay, v2schema2, v2schema2list, v2schema2list_only) ==
    [timeout |-> timeout, retry_delay |-> retry_delay,
     expect_v2schema2 |-> v2schema2,
     expect_v2schema2list |-> v2schema2list,
     expect_v2schema2list_only |-> v2schema2list_only]

\* lines 98-104: TRUE when the else branch returns the digests
Accepted(p, d) ==
    IF p.expect_v2schema2list /\ ~d.v2_list
    THEN FALSE                         \* "Expected schema 2 manifest list"
    ELSE IF ~p.expect_v2schema2list_only /\ p.expect_v2schema2 /\ ~d.v2
         THEN FALSE                    \* "Expected schema 2 manifest"
         ELSE TRUE

PollResult(kind, digests, exc) == [kind |-> kind, digests |-> digests, exc |-> exc]
NoResult == PollResult("none", NoDigests, NoExc)

\* the HTTPError re-raised by line 96
HTTPErrorExc(status) == Exc("HTTPError", ToString(status), 0)

\* faulty variant: the message is built from the retry delay
CraneTimeoutError_Delay(p) ==
    Exc("CraneTimeoutError", ToString(p.retry_delay) \o " seconds exceeded", 0)

\* CraneTimeoutError("{} seconds exceeded".format(self.timeout))
CraneTimeoutError(p) ==
    Exc("CraneTimeoutError", ToString(p.timeout) \o " seconds exceeded", 0)

\* faulty variant: the elapsed time is not looked at
AfterMiss_NoCheck(t) ==
    /\ ppc' = "sleep"
    /\ UNCHANGED poll_result

\* faulty variant: an elapsed time equal to the timeout already times out
AfterMiss_AtLeast(t) ==
    IF t - start >= plugin.timeout
    THEN /\ ppc' = "done"
         /\ poll_result' = PollResult("raised", NoDigests, CraneTimeoutError(plugin))
    ELSE /\ ppc' = "sleep"
         /\ UNCHANGED poll_result

\* lines 106-110, reached at time t after a retryable failure or a miss
AfterMiss(t) ==
    IF t - start > plugin.timeout
    THEN /\ ppc' = "done"
         /\ poll_result' = PollResult("raised", NoDigests, CraneTimeoutError(plugin))
    ELSE /\ ppc' = "sleep"
         /\ UNCHANGED poll_result

NoLookups ==
    [lookups |-> 0, sleeps |-> 0, n404 |-> 0, n403 |-> 0, nMiss |-> 0,
     errorLogs |-> 0, last |-> NoResponse]

\* the lookup raises HTTPError with status 404
LookupNotFound ==
    /\ ppc = "call"
    /\ \E d \in 0..MaxLookupTime :
         /\ now' = now + d
         /\ poll' = [poll EXCEPT !.lookups = @ + 1, !.n404 = @ + 1,
                                 !.last = HTTPError(not_found)]
         /\ AfterMiss(now + d)
    /\ UNCHANGED <<plugin, start>>
    /\ UNCHANGED <<runVars, postVars>>

\* faulty variant: a 403 is raised like any other status
LookupForbidden_Fatal ==
    /\ ppc = "call"
    /\ \E d \in 0..MaxLookupTime :
         /\ now' = now + d
         /\ poll' = [poll EXCEPT !.lookups = @ + 1, !.n403 = @ + 1,
                                 !.last = HTTPError(forbidden)]
         /\ ppc' = "done"
         /\ poll_result' = PollResult("raised", NoDigests, HTTPErrorExc(forbidden))
    /\ UNCHANGED <<plugin, start>>
    /\ UNCHANGED <<runVars, postVars>>

\* the lookup raises HTTPError with status 403: lines 86-93 log the diagnostic
LookupForbidden ==
    /\ ppc = "call"
    /\ \E d \in 0..MaxLookupTime :
         /\ now' = now + d
         /\ poll' = [poll EXCEPT !.lookups = @ + 1, !.n403 = @ + 1,
                                 !.errorLogs = @ + 1,
                                 !.last = HTTPError(forbidden)]
         /\ AfterMiss(now + d)
    /\ UNCHANGED <<plugin, start>>
    /\ UNCHANGED <<runVars, postVars>>

\* the lookup raises HTTPError with another status: line 96 re-raises it
LookupFails ==
    /\ ppc = "call"
    /\ \E d \in 0..MaxLookupTime, status \in Statuses \ {not_found, forbidden} :
         /\ now' = now + d
         /\ poll' = [poll EXCEPT !.lookups = @ + 1, !.last = HTTPError(status)]
         /\ ppc' = "done"
         /\ poll_result' = PollResult("raised", NoDigests, HTTPErrorExc(status))
    /\ UNCHANGED <<plugin, start>>
    /\ UNCHANGED <<runVars, postVars>>

\* faulty variant: any digests are returned
LookupReturns_Any ==
    /\ ppc = "call"
    /\ \E d \in 0..MaxLookupTime, digests \in DigestSets :
         /\ now' = now + d
         /\ poll' = [poll EXCEPT !.lookups = @ + 1, !.last = Returns(digests)]
         /\ ppc' = "done"
         /\ poll_result' = PollResult("returned", digests, NoExc)
    /\ UNCHANGED <<plugin, start>>
    /\ UNCHANGED <<runVars, postVars>>

\* the lookup returns digests: lines 98-104
LookupReturns ==
    /\ ppc = "call"
    /\ \E d \in 0..MaxLookupTime, digests \in DigestSets :
         /\ now' = now + d
         /\ IF Accepted(plugin, digests)
            THEN /\ poll' = [poll EXCEPT !.lookups = @ + 1, !.last = Returns(digests)]
                 /\ ppc' = "done"
                 /\ poll_result' = PollResult("returned", digests, NoExc)
            ELSE /\ poll' = [poll EXCEPT !.lookups = @ + 1, !.nMiss = @ + 1,
                                         !.last = Returns(digests)]
                 /\ AfterMiss(now + d)
    /\ UNCHANGED <<plugin, start>>
    /\ UNCHANGED <<runVars, postVars>>

\* faulty variant: the sleep returns at once
Sleep_NoAdvance ==
    /\ ppc = "sleep"
    /\ poll' = [poll EXCEPT !.sleeps = @ + 1]
    /\ ppc' = "call"
    /\ UNCHANGED <<plugin, start, now, poll_result>>
    /\ UNCHANGED <<runVars, postVars>>

\* sleep(self.retry_delay)
Sleep ==
    /\ ppc = "sleep"
    /\ now' = now + plugin.retry_delay
    /\ poll' = [poll EXCEPT !.sleeps = @ + 1]
    /\ ppc' = "call"
    /\ UNCHANGED <<plugin, start, poll_result>>
    /\ UNCHANGED <<runVars, postVars>>

\* the plugin as constructed with its defaults, retry_if_not_found not called
PollerIdle ==
    /\ plugin = Plugin(DefaultTimeout, DefaultRetryDelay, FALSE, FALSE, FALSE)
    /\ ppc = "idle"
    /\ start = 0
    /\ now = 0
    /\ poll = NoLookups
    /\ poll_result = NoResult

(***************************************************************************)
(* PulpPullPlugin.run and set_manifest_list_expectations, one step per     *)
(* blocking call; the polling steps above run between RunBegin and         *)
(* AfterPoll                                                               *)
(***************************************************************************)
\* atomic_reactor.constants
MEDIA_TYPE_DOCKER_V1 == "application/json"
MEDIA_TYPE_DOCKER_V2_SCHEMA1 == "application/vnd.docker.distribution.manifest.v1+json"
MEDIA_TYPE_DOCKER_V2_SCHEMA2 == "application/vnd.docker.distribution.manifest.v2+json"
MEDIA_TYPE_DOCKER_V2_MANIFEST_LIST == "application/vnd.docker.distribution.manifest.list.v2+json"
PLUGIN_PULP_SYNC_KEY == "pulp_sync"
PLUGIN_PULP_PUSH_KEY == "pulp_push"

\* position of a media type in the order of its string
MediaRank(m) ==
    CASE m = MEDIA_TYPE_DOCKER_V1 -> 1
      [] m = MEDIA_TYPE_DOCKER_V2_MANIFEST_LIST -> 2
      [] m = MEDIA_TYPE_DOCKER_V2_SCHEMA1 -> 3
      [] m = MEDIA_TYPE_DOCKER_V2_SCHEMA2 -> 4

RECURSIVE Insert(_, _)
Insert(m, seq) ==
    IF seq = <<>> THEN <<m>>
    ELSE IF MediaRank(m) <= MediaRank(Head(seq)) THEN <<m>> \o seq
         ELSE <<Head(seq)>> \o Insert(m, Tail(seq))

\* sorted(media_types)
RECURSIVE sorted(_)
sorted(seq) == IF seq = <<>> THEN <<>> ELSE Insert(Head(seq), sorted(Tail(seq)))

\* lines 132-137: the media types the configured postbuild plugins stand for
RECURSIVE ConfMediaTypes(_)
ConfMediaTypes(conf) ==
    IF conf = <<>> THEN <<>>
    ELSE (IF Head(conf) = PLUGIN_PULP_SYNC_KEY THEN <<MEDIA_TYPE_DOCKER_V2_SCHEMA1>>
          ELSE IF Head(conf) = PLUGIN_PULP_PUSH_KEY THEN <<MEDIA_TYPE_DOCKER_V1>>
          ELSE <<>>) \o ConfMediaTypes(Tail(conf))

\* `if digests:` on a ManifestDigest, a dict of the digests that were found
Truthy(d) == d.v1 \/ d.v2 \/ d.v2_list

\* lines 204-210: "break", "else", or "KeyError" from platform_to_goarch[plat]
RECURSIVE Amd64Scan(_, _)
Amd64Scan(plats, i) ==
    IF i > Len(plats) THEN "else"
    ELSE IF ~HasPlatform(plats[i]) THEN "KeyError"
         ELSE IF platform_to_arch(plats[i]) = "amd64" THEN "break"
              ELSE Amd64Scan(plats, i + 1)

\* faulty variant: the list-only mode is set when amd64 was built
set_manifest_list_expectations_Inverted(p) ==
    IF ~wf.grouped
    THEN [plugin |-> p, exc |-> NoExc]
    ELSE LET p1 == [p EXCEPT !.expect_v2schema2list = TRUE]
         IN  IF Len(cfg.platforms) = 0 \/ ~cfg.descriptors.defined
             THEN [plugin |-> p1, exc |-> NoExc]
             ELSE CASE Amd64Scan(cfg.platforms, 1) = "KeyError" ->
                         [plugin |-> p1, exc |-> Exc("KeyError", "platform", 0)]
                    [] Amd64Scan(cfg.platforms, 1) = "else" ->
                         [plugin |-> p1, exc |-> NoExc]
                    [] OTHER ->
                         [plugin |-> [p1 EXCEPT !.expect_v2schema2list_only = TRUE,
                                                !.expect_v2schema2 = FALSE],
                          exc |-> NoExc]

\* [plugin, exc]: the plugin's fields afterwards, or the exception raised
set_manifest_list_expectations(p) ==
    IF ~wf.grouped
    THEN [plugin |-> p, exc |-> NoExc]
    ELSE LET p1 == [p EXCEPT !.expect_v2schema2list = TRUE]
         IN  IF Len(cfg.platforms) = 0 \/ ~cfg.descriptors.defined
             THEN [plugin |-> p1, exc |-> NoExc]
             ELSE CASE Amd64Scan(cfg.platforms, 1) = "KeyError" ->
                         [plugin |-> p1, exc |-> Exc("KeyError", "platform", 0)]
                    [] Amd64Scan(cfg.platforms, 1) = "break" ->
                         [plugin |-> p1, exc |-> NoExc]
                    [] OTHER ->
                         [plugin |-> [p1 EXCEPT !.expect_v2schema2list_only = TRUE,
                                                !.expect_v2schema2 = FALSE],
                          exc |-> NoExc]

RunResult(kind, value, exc) == [kind |-> kind, value |-> value, exc |-> exc]
NoRunResult == RunResult("none", <<>>, NoExc)

PullspecName == "crane.example.com/build-1:latest"    \* pullspec.to_str()
BuiltId == "sha256:built"                             \* the image ID the build left
InspectedId == "sha256:inspected"                     \* metadata['Id']

NoCrane == [pulls |-> 0, pulled |-> {}, inspects |-> 0]

\* lines 115-118
RunFailedBuild ==
    /\ rpc = "start"
    /\ wf.build_process_failed
    /\ image_id' = None
    /\ run_result' = RunResult("returned", <<>>, NoExc)
    /\ rpc' = "done"
    /\ UNCHANGED <<wf, media_types, deferred, crane>>
    /\ UNCHANGED <<runVars, pollVars>>

\* lines 120-142: up to the call of retry_if_not_found, or to the pull
RunBegin ==
    /\ rpc = "start"
    /\ ~wf.build_process_failed
    /\ LET e == set_manifest_list_expectations(plugin)
       IN  /\ plugin' = e.plugin
           /\ IF e.exc # NoExc
              THEN /\ rpc' = "done"
                   /\ run_result' = RunResult("raised", <<>>, e.exc)
                   /\ UNCHANGED <<media_types, ppc, start>>
              ELSE /\ media_types' = ConfMediaTypes(wf.postbuild_plugins_conf)
                   /\ UNCHANGED run_result
                   /\ IF wf.server_side_sync
                      THEN /\ rpc' = "poll"
                           /\ ppc' = "call"
                           /\ start' = now              \* start = time()
                      ELSE /\ rpc' = "pull"
                           /\ UNCHANGED <<ppc, start>>
    /\ UNCHANGED <<now, poll, poll_result, wf, image_id, deferred, crane>>
    /\ UNCHANGED runVars

\* faulty variant: the image is pulled whatever digests were found
AfterPoll_AlwaysPull ==
    /\ rpc = "poll"
    /\ ppc = "done"
    /\ IF poll_result.kind = "raised"
       THEN /\ rpc' = "done"
            /\ run_result' = RunResult("raised", <<>>, poll_result.exc)
            /\ UNCHANGED media_types
       ELSE /\ rpc' = "pull"
            /\ UNCHANGED <<media_types, run_result>>
    /\ UNCHANGED <<wf, image_id, deferred, crane>>
    /\ UNCHANGED <<runVars, pollVars>>

\* retry_if_not_found has ended: lines 143-164
AfterPoll ==
    /\ rpc = "poll"
    /\ ppc = "done"
    /\ IF poll_result.kind = "raised"
       THEN /\ rpc' = "done"
            /\ run_result' = RunResult("raised", <<>>, poll_result.exc)
            /\ UNCHANGED media_types
       ELSE LET d == poll_result.digests
                withList == IF Truthy(d) /\ d.v2_list
                            THEN Append(media_types, MEDIA_TYPE_DOCKER_V2_MANIFEST_LIST)
                            ELSE media_types
            IN  IF Truthy(d) /\ d.v2_list /\ plugin.expect_v2schema2list_only
                THEN /\ rpc' = "done"
                     /\ media_types' = withList
                     /\ run_result' = RunResult("returned",
                                                <<MEDIA_TYPE_DOCKER_V2_MANIFEST_LIST>>, NoExc)
                ELSE IF Truthy(d) /\ d.v2
                     THEN /\ rpc' = "done"
                          /\ media_types' = Append(withList, MEDIA_TYPE_DOCKER_V2_SCHEMA2)
                          /\ run_result' = RunResult("returned",
                                 sorted(Append(withList, MEDIA_TYPE_DOCKER_V2_SCHEMA2)), NoExc)
                     ELSE /\ rpc' = "pull"
                          /\ media_types' = withList
                          /\ UNCHANGED run_result
    /\ UNCHANGED <<wf, image_id, deferred, crane>>
    /\ UNCHANGED <<runVars, pollVars>>

\* tasker.pull_image(pullspec) succeeds: line 168
CranePullOk ==
    /\ rpc = "pull"
    /\ crane' = [crane EXCEPT !.pulls = @ + 1, !.pulled = @ \cup {PullspecName}]
    /\ rpc' = "inspect"
    /\ UNCHANGED <<wf, image_id, media_types, run_result, deferred>>
    /\ UNCHANGED <<runVars, pollVars>>

\* tasker.pull_image(pullspec) raises
CranePullFail ==
    /\ rpc = "pull"
    /\ crane' = [crane EXCEPT !.pulls = @ + 1]
    /\ rpc' = "done"
    /\ run_result' = RunResult("raised", <<>>, Exc("RetryGeneratorException", "pull failed", 0))
    /\ UNCHANGED <<wf, image_id, media_types, deferred>>
    /\ UNCHANGED <<runVars, pollVars>>

\* tasker.inspect_image(name) returns: lines 172-183
InspectOk ==
    /\ rpc = "inspect"
    /\ crane' = [crane EXCEPT !.inspects = @ + 1]
    /\ deferred' = deferred \cup {PullspecName}
    /\ image_id' = InspectedId
    /\ run_result' = RunResult("returned", sorted(media_types), NoExc)
    /\ rpc' = "done"
    /\ UNCHANGED <<wf, media_types>>
    /\ UNCHANGED <<runVars, pollVars>>

\* tasker.inspect_image(name) raises: line 172
InspectFail ==
    /\ rpc = "inspect"
    /\ crane' = [crane EXCEPT !.inspects = @ + 1]
    /\ run_result' = RunResult("raised", <<>>, Exc("APIError", "inspect failed", 0))
    /\ rpc' = "done"
    /\ UNCHANGED <<wf, image_id, media_types, deferred>>
    /\ UNCHANGED <<runVars, pollVars>>

Workflow(failed, grouped, sync, conf) ==
    [build_process_failed |-> failed, grouped |-> grouped,
     server_side_sync |-> sync, postbuild_plugins_conf |-> conf]

\* run() of the plugin not called
PulpIdle ==
    /\ wf = Workflow(FALSE, FALSE, FALSE, <<>>)
    /\ rpc = "idle"
    /\ image_id = BuiltId
    /\ media_types = <<>>
    /\ run_result = NoRunResult
    /\ deferred = {}
    /\ crane = NoCrane

(***************************************************************************)
(* Initial states                                                          *)
(***************************************************************************)
Platforms == {"x86_64", "ppc64le", "s390x"}
FullDescriptors == [defined |-> TRUE,
                    pairs |-> {<<"x86_64", "amd64">>, <<"ppc64le", "ppc64le">>}]
MLBoth == ML(TRUE, <<Manifest("amd64"), Manifest("ppc64le")>>)
Labels == [version |-> "1.0", release |-> "1"]
Tags == {"28", "sha256:d0", "sha256:t1", "1.0-1"}

ParentSets == {S \in SUBSET (1..Len(Universe)) : S # {} /\ Cardinality(S) <= MaxParents}

Cfg(S, b, reg, trig, chk, plats, desc, cur) ==
    [parents |-> S, base_image_str |-> to_str(Universe[b]), base0 |-> Universe[b],
     parent_registry |-> reg, trigger |-> trig, check_platforms |-> chk,
     platforms |-> plats, descriptors |-> desc, current_platform |-> cur]

\* a registry where only the synthesized tag of a digest leads to a manifest list
PlainEnv ==
    [registry |-> [t \in Tags |-> IF IsDigest(t) THEN NoML ELSE MLBoth],
     config |-> [outcome |-> "ok", labels |-> Labels]]

PullCfgs ==
    {Cfg(S, b, reg, trig, chk, <<"x86_64", "ppc64le">>, FullDescriptors, "s390x") :
        S \in ParentSets, b \in 1..Len(Universe), reg \in {None, ParentRegistry},
        trig \in {NoImage, TriggerImage}, chk \in BOOLEAN}

InitRun ==
    /\ pc = "loop"
    /\ idx = 0
    /\ parent_images = [k \in ParentKeys |-> None]
    /\ base_image = cfg.base0
    /\ image = NoImage
    /\ attempt = 0
    /\ first_library_exc = NoExc
    /\ pulled_base_images = {}
    /\ store = {}
    /\ manifest_list_cache = <<>>       \* self.manifest_list_cache = {}
    /\ raised = NoExc
    /\ fetches = <<>>
    /\ pulledRefs = {}
    /\ hist = NoCall

Init ==
    /\ cfg \in {c \in PullCfgs : c.base0 \in {Universe[i] : i \in c.parents}}
    /\ env = PlainEnv
    /\ InitRun
    /\ PollerIdle
    /\ PulpIdle

Next ==
    \/ BeginParent
    \/ PullOk
    \/ PullFail
    \/ Exhausted
    \/ TagOk
    \/ TagNotFound
    \/ TagError
    \/ OtherBuildCleanup

Spec == Init /\ [][Next]_vars

(***************************************************************************)
(* Resolution passes: check_platforms set, over the registry contents and  *)
(* platform configurations, with a runtime whose pulls and tags succeed    *)
(***************************************************************************)
NoDescriptors == [defined |-> FALSE, pairs |-> {}]
AllDescriptors == [defined |-> TRUE,
                   pairs |-> {<<"x86_64", "amd64">>, <<"ppc64le", "ppc64le">>,
                              <<"s390x", "s390x">>}]
MLAmd == ML(TRUE, <<Manifest("amd64")>>)
MLAll == ML(TRUE, <<Manifest("amd64"), Manifest("ppc64le"), Manifest("s390x")>>)
MLEmpty == ML(TRUE, <<>>)

Registry(byTag, byDigest, byFallback) ==
    [t \in Tags |-> CASE t = "28" -> byTag
                      [] t = "1.0-1" -> byFallback
                      [] OTHER -> byDigest]

ResolveEnvs ==
    {[registry |-> Registry(a, b, c), config |-> [outcome |-> o, labels |-> Labels]] :
        a \in {NoML, MLAmd, MLBoth, MLAll, MLEmpty}, b \in {NoML, MLBoth},
        c \in {NoML, MLAmd, MLBoth},
        o \in {"ok", "HTTPError", "Timeout", "RetryError", "nolabels", "norelease"}}

ResolveCfgs ==
    {Cfg(S, b, reg, NoImage, TRUE, plats, desc, cur) :
        S \in ParentSets, b \in 1..Len(Universe), reg \in {None, ParentRegistry},
        plats \in {<<>>, <<"x86_64">>, <<"x86_64", "ppc64le">>, <<"x86_64", "s390x">>},
        desc \in {NoDescriptors, FullDescriptors, AllDescriptors},
        cur \in {"x86_64", "s390x"}}

InitResolve ==
    /\ cfg \in {c \in ResolveCfgs : c.base0 \in {Universe[i] : i \in c.parents}}
    /\ env \in ResolveEnvs
    /\ InitRun
    /\ PollerIdle
    /\ PulpIdle

NextResolve ==
    \/ BeginParent
    \/ PullOk
    \/ TagOk

SpecResolve == InitResolve /\ [][NextResolve]_vars

(***************************************************************************)
(* Polling: one call of retry_if_not_found, over the configurations of the *)
(* plugin and every sequence of responses and lookup durations             *)
(***************************************************************************)
\* the expect_* fields as __init__ and set_manifest_list_expectations leave them
Expectations ==
    {<<v2, l, FALSE>> : v2, l \in BOOLEAN} \cup {<<FALSE, TRUE, TRUE>>}

\* the configurations polled: retry_if_not_found has no bound on its lookups of
\* its own, it ends by the clock, so the runs drawn sleep for at least a second
Plugins ==
    {Plugin(t, r, e[1], e[2], e[3]) :
        t \in 0..MaxTimeout, r \in 1..MaxDelay, e \in Expectations}

StartTimes == {0, 10}

InitPoll ==
    /\ plugin \in Plugins
    /\ ppc = "call"
    /\ start \in StartTimes               \* start = time()
    /\ now = start
    /\ poll = NoLookups
    /\ poll_result = NoResult
    /\ cfg = Cfg({4}, 4, ParentRegistry, NoImage, FALSE, <<>>, NoDescriptors, "x86_64")
    /\ env = PlainEnv
    /\ InitRun
    /\ PulpIdle

NextPoll ==
    \/ LookupNotFound
    \/ LookupForbidden
    \/ LookupFails
    \/ LookupReturns
    \/ Sleep

SpecPoll == InitPoll /\ [][NextPoll]_vars

\* sleep() and the lookup return: a step that can be taken is taken
SpecPollFair == SpecPoll /\ WF_vars(NextPoll)

(***************************************************************************)
(* One run of PulpPullPlugin.run, over the workflow inputs, the plugin's   *)
(* arguments and every course of the polling, the pull and the inspection  *)
(***************************************************************************)
PulpCfgs ==
    {Cfg({4}, 4, ParentRegistry, NoImage, FALSE, plats, desc, "x86_64") :
        plats \in {<<>>, <<"x86_64">>, <<"ppc64le">>, <<"ppc64le", "x86_64">>,
                   <<"ppc64le", "s390x">>},
        desc \in {NoDescriptors, FullDescriptors}}

Workflows ==
    {Workflow(failed, grouped, sync, conf) :
        failed, grouped, sync \in BOOLEAN,
        conf \in {<<>>, <<PLUGIN_PULP_SYNC_KEY>>,
                  <<PLUGIN_PULP_SYNC_KEY, PLUGIN_PULP_PUSH_KEY>>}}

InitPulp ==
    /\ cfg \in PulpCfgs
    /\ env = PlainEnv
    /\ InitRun
    /\ plugin \in {Plugin(t, 1, v2, FALSE, FALSE) : t \in {0, 1}, v2 \in BOOLEAN}
    /\ ppc = "idle"
    /\ start = 0
    /\ now = 0
    /\ poll = NoLookups
    /\ poll_result = NoResult
    /\ wf \in Workflows
    /\ rpc = "start"
    /\ image_id = BuiltId
    /\ media_types = <<>>
    /\ run_result = NoRunResult
    /\ deferred = {}
    /\ crane = NoCrane

NextPulp ==
    \/ RunFailedBuild
    \/ RunBegin
    \/ LookupNotFound
    \/ LookupForbidden
    \/ LookupFails
    \/ LookupReturns
    \/ Sleep
    \/ AfterPoll
    \/ CranePullOk
    \/ CranePullFail
    \/ InspectOk
    \/ InspectFail

SpecPulp == InitPulp /\ [][NextPulp]_vars

(***************************************************************************)
(* Properties                                                              *)
(***************************************************************************)
CallEnded == hist.result \in {"returned", "raised"}
Library(img) == [img EXCEPT !.namespace = "library"]

\* C1: a call in which every pull succeeded and every tag attempt failed with
\* NotFound has ended only after exactly 20 pulls and 20 tag attempts, and it ended
\* by raising "too many attempts to pull and tag image", never by returning.
C1_ExhaustedAfterTwentyNotFound ==
    (CallEnded /\ hist.nPullFails = 0 /\ hist.nNotFound = hist.nTags)
        => /\ hist.nPulls = 20
           /\ hist.nTags = 20
           /\ hist.result = "raised"
           /\ raised = TooManyAttempts
           /\ hist.tagged = NoTag

C1_Witness ==
    /\ pc = "done" /\ hist.result = "raised" /\ raised = TooManyAttempts
    /\ hist.nPullFails = 0 /\ hist.nPulls = 20 /\ hist.nNotFound = 20

\* C2: the reference is rewritten to namespace "library" at most once per call; when
\* the first pull of an unnamespaced image fails the call goes on to pull
\* library/<repo>, and when that second pull and the tag after it succeed the call
\* returns having made exactly two pulls, the tag being applied to library/<repo>.
C2_LibraryRetryOnce ==
    /\ hist.nRewrites <= 1
    /\ (hist.start.namespace = None /\ hist.nPulls = 1 /\ hist.nPullFails = 1)
          => /\ pc = "pull" /\ raised = NoExc
             /\ image = Library(hist.start)
             /\ hist.nRewrites = 1
    /\ (hist.start.namespace = None /\ hist.nPulls = 2 /\ hist.nPullFails = 1
            /\ hist.lastPullOk)
          => /\ hist.lastPull = Library(hist.start)
             /\ hist.nTags = 1 /\ hist.nNotFound = 0 /\ ~hist.tagError
                  => /\ hist.result = "returned"
                     /\ hist.tagged.src = to_str(Library(hist.start))

C2_Witness ==
    /\ hist.result = "returned" /\ hist.start.namespace = None
    /\ hist.nPulls = 2 /\ hist.nPullFails = 1 /\ hist.nTags = 1
    /\ hist.lastPull = Library(hist.start)

\* C3: a pull failure on a reference that has a namespace (its own, or "library"
\* from the retry) ends the call at once with a RetryGeneratorException, and when it
\* is the second failure of the call the exception raised is the first one.
C3_PullFailureFatal ==
    /\ (hist.nPulls > 0 /\ ~hist.lastPullOk /\ hist.lastPull.namespace # None)
          => /\ pc = "done" /\ hist.result = "raised"
             /\ raised = PullExc(1)
             /\ raised = hist.firstFail
    /\ hist.nPullFails = 2 => (pc = "done" /\ raised = PullExc(1))
    /\ hist.nPullFails <= 2

C3_Witness ==
    /\ pc = "done" /\ hist.nPullFails = 2 /\ raised = PullExc(1)
    /\ hist.lastPull = Library(hist.start)

\* C4: NotFound from the tag step never ends the call by itself: the same
\* reference is pulled again, and a call whose only mishap is one NotFound returns
\* after exactly two pulls and two tag attempts.
C4_RepullAfterNotFound ==
    /\ (hist.result = "raised" /\ hist.nPullFails = 0 /\ ~hist.tagError)
          => hist.nNotFound = 20
    /\ (hist.nPullFails = 0 /\ hist.nPulls > 0) => hist.lastPull = hist.start
    /\ (hist.nNotFound > 0 /\ hist.nNotFound = hist.nTags /\ hist.nPulls = hist.nTags
            /\ hist.nTags < 20)
          => (pc = "pull" /\ raised = NoExc)
    /\ (hist.result = "returned" /\ hist.nPullFails = 0 /\ hist.nNotFound = 1)
          => (hist.nPulls = 2 /\ hist.nTags = 2 /\ raised = NoExc
              /\ hist.tagged.src = to_str(hist.start))

C4_Witness ==
    /\ hist.result = "returned" /\ hist.nPullFails = 0 /\ hist.nNotFound = 1
    /\ hist.nPulls = 2 /\ hist.nTags = 2

\* C5: a tag failure other than NotFound ends run() at once with that failure; it
\* is the last attempt of the call.
C5_OtherTagFailureFatal ==
    hist.tagError
        => /\ pc = "done" /\ hist.result = "raised"
           /\ raised = TagFailure
           /\ hist.nTags = hist.nNotFound + 1
           /\ hist.nPulls = attempt
           /\ hist.tagged = NoTag

C5_Witness ==
    /\ hist.tagError /\ pc = "done" /\ raised = TagFailure /\ hist.nNotFound = 1

\* C6: in every state from the end of a successful pull on, and so at every exit of
\* the call, the ledger holds the name of every image the call pulled successfully,
\* and it still holds everything it held when the call began.
C6_LedgerHoldsPulled ==
    /\ hist.pulledOk \subseteq pulled_base_images
    /\ hist.ledger0 \subseteq pulled_base_images
    /\ (pc = "tag" => to_str(image) \in pulled_base_images)

C6_Witness ==
    /\ pc = "done" /\ hist.result = "raised" /\ hist.tagError
    /\ hist.pulledOk # {} /\ hist.ledger0 # {}
    /\ hist.pulledOk \subseteq pulled_base_images

\* C7: with another build removing images from the shared store at any moment, a
\* call whose pulls all succeed and whose tag attempts hit a removed image fewer than
\* 20 times cannot end in failure, and a successful tag was applied to the reference
\* just pulled, present in the store at that moment.
C7_ToleratesConcurrentRemoval ==
    /\ (CallEnded /\ hist.nPullFails = 0 /\ ~hist.tagError /\ hist.nNotFound < 20)
          => (hist.result = "returned" /\ raised = NoExc)
    /\ hist.result = "running" => pc \in {"pull", "tag"}
    /\ hist.tagged # NoTag
          => /\ hist.tagged.present
             /\ hist.tagged.src = to_str(hist.lastPull)
             /\ hist.lastPullOk

C7_Witness ==
    /\ hist.result = "returned" /\ hist.nPullFails = 0 /\ hist.nNotFound = 19
    /\ hist.tagged.present

\* C8 (amended): with a parent registry configured, every pull is made on a
\* reference of that registry; a parent whose resolved image (the auto-rebuild
\* trigger image or builder.base_image for the base image, the parsed parent
\* otherwise) names another registry ends run() with the registry RuntimeError
\* before any pull for it; a resolved image naming no registry is pulled with the
\* configured registry set.
C8_RegistryEnforced ==
    cfg.parent_registry # None
        => /\ \A r \in pulledRefs : r.registry = cfg.parent_registry
           /\ pc \in {"pull", "tag"}
                => /\ ParsedParent(SortedParents[idx + 1]).registry
                          \in {None, cfg.parent_registry}
                   /\ hist.start.registry = cfg.parent_registry
                   /\ image.registry = cfg.parent_registry
           /\ raised = RegistryMismatch
                => /\ pc = "done" /\ hist = NoCall
                   /\ LET res == ParsedParent(SortedParents[idx + 1])
                      IN  /\ res.registry \notin {None, cfg.parent_registry}
                          /\ \A r \in pulledRefs : r.repo # res.repo

C8_Witness ==
    /\ cfg.parent_registry = ParentRegistry
    /\ ~cfg.check_platforms
    /\ raised = RegistryMismatch /\ idx = 1
    /\ ImageName(ParentRegistry, None, "fedora", "28") \in pulledRefs

\* C8 as stated: with a parent registry configured, a parent image that names
\* another registry never gets as far as a pull.
C8_ForeignParentNeverPulled ==
    (cfg.parent_registry # None /\ pc \in {"pull", "tag"})
        => SortedParents[idx + 1].registry \in {None, cfg.parent_registry}

\* place of a parent among the sorted keys, counted without the sorted list
Rank(i) == Cardinality({j \in cfg.parents : j < i})
UniqueName(n) == BuildName \o ":" \o ToString(n)

\* C9: a returning call returns <build name>:<nonce>; the nonce of a parent is its
\* place among the sorted parent names, each processed parent's entry of
\* parent_images holds its own unique name, and no two entries hold the same one.
C9_UniqueReferences ==
    /\ DOMAIN parent_images = ParentKeys
    /\ \A i \in cfg.parents :
          parent_images[to_str(Universe[i])] =
              IF Rank(i) < idx THEN UniqueName(Rank(i)) ELSE None
    /\ \A k1, k2 \in ParentKeys :
          (k1 # k2 /\ parent_images[k1] # None) => parent_images[k1] # parent_images[k2]
    /\ hist.result = "returned"
          => /\ hist.tagged.dst = UniqueName(idx - 1)
             /\ hist.tagged.dst \in pulled_base_images

C9_Witness ==
    /\ pc = "done" /\ raised = NoExc /\ idx = 2
    /\ cfg.parents = {1, 4}
    /\ parent_images["fedora:28"] = "build-1:0"
    /\ parent_images["reg.example.com/rhel7:28"] = "build-1:1"

\* C10: within one run no manifest list and no config blob is fetched twice for
\* the same image: every repeated lookup is answered from manifest_list_cache.
C10_FetchedOncePerImage ==
    \A i, j \in DOMAIN fetches : i < j => fetches[i] # fetches[j]


(***************************************************************************)
(* Claims about the resolution pass (SpecResolve)                          *)
(***************************************************************************)
\* a digest reference whose own manifest-list lookup finds nothing
DirectMiss(img) == IsDigest(img.tag) /\ ~env.registry[img.tag].found

\* position i of the registry-call log is the first call of a resolution
DirectFetch(i) ==
    /\ fetches[i].op = "manifest_list"
    /\ i = 1 \/ fetches[i - 1].op # "config"

\* C11: a resolution of a digest reference whose direct manifest-list fetch finds
\* nothing makes exactly one config-blob fetch and, the blob carrying its labels,
\* exactly one further manifest-list fetch, on the same reference with the tag
\* "version-release" (here "1.0-1") in place of the digest; a blob that cannot be
\* fetched or lacks the labels ends the run after that one config fetch.  A
\* resolution of a tag reference, or one whose direct fetch finds a manifest list,
\* makes no config-blob fetch and no second manifest-list fetch.
C11_DigestFallbackFetches ==
    \A i \in DOMAIN fetches :
        LET f == fetches[i]
            n == Len(fetches)
        IN  /\ f.op = "config" =>
                  i > 1 /\ fetches[i - 1] = FetchML(f.image) /\ DirectMiss(f.image)
            /\ DirectFetch(i) /\ DirectMiss(f.image) =>
                  /\ i < n /\ fetches[i + 1] = FetchConfig(f.image)
                  /\ IF env.config.outcome = "ok"
                     THEN /\ i + 2 <= n
                          /\ fetches[i + 2] = FetchML([f.image EXCEPT !.tag = "1.0-1"])
                          /\ (i + 3 <= n => DirectFetch(i + 3))
                     ELSE i + 1 = n /\ raised # NoExc
            /\ DirectFetch(i) /\ ~DirectMiss(f.image) /\ i < n =>
                  DirectFetch(i + 1) /\ fetches[i + 1].image.repo # f.image.repo

C11_Witness ==
    /\ Len(fetches) = 4
    /\ DirectMiss(fetches[1].image)
    /\ fetches[2].op = "config"
    /\ fetches[3].image.tag = "1.0-1"
    /\ ~IsDigest(fetches[4].image.tag)
    /\ raised = NoExc
    /\ pc = "done"

\* parents for which lines 73-83 have run
Begun == IF pc = "loop" \/ (pc = "done" /\ raised = NoExc) THEN idx ELSE idx + 1

\* resolutions that went to the registry
NumDirect == Cardinality({i \in DOMAIN fetches : DirectFetch(i)})

\* the failures _validate_platforms_in_image raises after its early returns
ValidationFailures ==
    {Exc("RuntimeError", "Unable to fetch manifest list for base image", 0),
     Exc("KeyError", "platform", 0),
     Exc("AssertionError", "Missing arches in manifest list for base image", 0)}

\* C12 (as amended): with an expected platform set of size 1 the coverage
\* validation returns without asking for a manifest list and without failing,
\* whatever the registry holds: the run never ends in one of its failures and the
\* registry is asked at most once per parent, by _get_image_for_different_arch.
C12_SinglePlatformNotValidated ==
    Len(cfg.platforms) = 1 =>
        /\ raised \notin ValidationFailures
        /\ NumDirect <= Begun

\* C12 (as stated): with an expected platform set of size 1 no manifest-list
\* fetch is attempted for the image.
C12_NoFetchForSinglePlatform ==
    Len(cfg.platforms) = 1 => fetches = <<>>

C12_Witness ==
    /\ Len(cfg.platforms) = 1
    /\ cfg.descriptors.defined
    /\ pc = "pull"
    /\ idx = 0
    /\ image.registry # None
    /\ ~IsDigest(image.tag)
    /\ ~env.registry[image.tag].found
    /\ fetches = <<FetchML(image)>>

\* lines 73-76 for the parent in progress: the image handed to the platform
\* checks, unless its registry is refused
Ensured == _ensure_image_registry(ParsedParent(SortedParents[idx + 1]))
CurrentInput == Ensured.value

\* the parent in progress got past lines 73-83 / was stopped there
Passed == pc \in {"pull", "tag"}
Stopped == pc = "done" /\ raised # NoExc /\ hist = NoCall

\* what the registry holds for an image once the digest fallback is applied
Resolved(img) == IF DirectMiss(img) THEN env.registry["1.0-1"] ELSE env.registry[img.tag]

ExpectedArches == {d[2] : d \in {e \in cfg.descriptors.pairs : e[1] \in SeqToSet(cfg.platforms)}}

ListedArches(img) == {Resolved(img).manifests[i].architecture : i \in DOMAIN Resolved(img).manifests}

\* the validation of img reaches the comparison of line 273: two or more expected
\* platforms, each with an architecture, and a manifest list found for the image
Compared(img) ==
    /\ cfg.check_platforms
    /\ Len(cfg.platforms) >= 2
    /\ img.registry # None
    /\ cfg.descriptors.defined
    /\ \A p \in SeqToSet(cfg.platforms) : \E d \in cfg.descriptors.pairs : d[1] = p
    /\ DirectMiss(img) => env.config.outcome = "ok"
    /\ Resolved(img).found

\* C13: for two or more expected platforms, the mapping available and a manifest
\* list found, the parent passes the platform validation exactly when the
\* architectures of the manifest list include every architecture the expected
\* platforms map to (further architectures are accepted); otherwise the run fails
\* with the missing-architectures error and nothing has been pulled for that image.
C13_SupersetValidation ==
    (idx < Len(SortedParents) /\ (Passed \/ Stopped)) =>
        LET img == CurrentInput
        IN  Ensured.exc = NoExc /\ Compared(img) =>
                IF ExpectedArches \subseteq ListedArches(img)
                THEN Passed /\ raised = NoExc
                ELSE /\ Stopped
                     /\ raised = Exc("AssertionError",
                                     "Missing arches in manifest list for base image", 0)
                     /\ \A r \in pulledRefs : get_repo(r) # get_repo(img)

C13_Witness ==
    /\ idx = 1
    /\ Stopped
    /\ raised.type = "AssertionError"
    /\ Compared(CurrentInput)
    /\ DirectMiss(CurrentInput)
    /\ pulledRefs # {}
    /\ \E r \in pulledRefs : ListedArches(r) = {"amd64", "ppc64le", "s390x"}

\* C14: a platform or architecture without an entry in the mapping is a soft
\* condition wherever the mapping is consulted: the dependent check is skipped
\* and no lookup error ends the run.
C14_MissingEntryIsSoft ==
    raised # Exc("KeyError", "platform", 0)

\* the platforms the architectures of the image's manifest list map to
ListedPlatforms(img) == {d[1] : d \in {e \in cfg.descriptors.pairs : e[2] \in ListedArches(img)}}

\* every architecture of the image's manifest list has a platform
AllMapped(img) == \A a \in ListedArches(img) : \E d \in cfg.descriptors.pairs : d[2] = a

\* the failures of the config-blob fetch in the digest fallback
FallbackFailures ==
    {Exc("RuntimeError", "Unable to fetch config for base image", 0),
     Exc("AttributeError", "'NoneType' object has no attribute 'status_code'", 0),
     Exc("TypeError", "'NoneType' object is not subscriptable", 0),
     Exc("KeyError", "release", 0)}

\* C15 (as amended): when the current platform is not among the platforms the
\* manifest list's architectures map to, each listed architecture having a
\* platform, the image is replaced by the same repository at the digest of one of
\* the list's entries, whose architecture maps to another platform than the
\* current one; when the current platform is present, no manifest list is found,
\* the list is empty or a mapping is missing, the image is left unchanged.  The
\* selection raises nothing of its own: a run stopped in the platform checks was
\* stopped by the validation or by the config-blob fetch of the digest fallback.
C15_SubstituteWhenPlatformAbsent ==
    (idx < Len(SortedParents) /\ Ensured.exc = NoExc) =>
        LET img == CurrentInput
            ml == Resolved(img)
        IN  /\ Passed =>
                IF /\ ml.found /\ ListedArches(img) # {}
                   /\ cfg.descriptors.defined /\ AllMapped(img)
                   /\ cfg.current_platform \notin ListedPlatforms(img)
                THEN \E i \in DOMAIN ml.manifests :
                        /\ hist.start = [img EXCEPT !.tag = ml.manifests[i].digest]
                        /\ <<cfg.current_platform, ml.manifests[i].architecture>>
                               \notin cfg.descriptors.pairs
                ELSE hist.start = img
            /\ Stopped => raised \in ValidationFailures \cup FallbackFailures

\* C15 (as stated): a substituted reference is the digest of an entry whose
\* architecture maps to the current platform.
C15_SubstituteMapsToCurrent ==
    (idx < Len(SortedParents) /\ Ensured.exc = NoExc /\ Passed
     /\ hist.start # CurrentInput) =>
        \E i \in DOMAIN Resolved(CurrentInput).manifests :
            /\ hist.start.tag = Resolved(CurrentInput).manifests[i].digest
            /\ <<cfg.current_platform, Resolved(CurrentInput).manifests[i].architecture>>
                   \in cfg.descriptors.pairs

C15_Witness ==
    /\ idx < Len(SortedParents)
    /\ pc = "tag"
    /\ cfg.current_platform = "s390x"
    /\ ListedArches(CurrentInput) = {"amd64", "ppc64le"}
    /\ hist.start = [CurrentInput EXCEPT !.tag = "sha256:amd64"]
    /\ hist.lastPull = hist.start

(***************************************************************************)
(* Claims about retry_if_not_found (SpecPoll, SpecPollFair)                *)
(***************************************************************************)
Elapsed == now - start

\* the last response was a 404, a 403 or digests that miss an expected kind
Retryable(r) == r.kind = "HTTPError" /\ r.status \in {404, 403}

\* the digests carry every kind the plugin expects
Satisfies(d) ==
    /\ plugin.expect_v2schema2list => d.v2_list
    /\ (plugin.expect_v2schema2 /\ ~plugin.expect_v2schema2list_only) => d.v2

SoftMiss(r) == r.kind = "digests" /\ ~Satisfies(r.digests)

TimedOut == poll_result.exc.type = "CraneTimeoutError"

\* C16: an HTTP failure is retried exactly when its status is 404 or 403, and each
\* 403 logs the diagnostic; any other status ends the polling at once with that
\* HTTP error, whatever the elapsed time, with no sleep after the failing lookup.
C16_OnlyNotFoundAndForbiddenRetried ==
    /\ (poll.last.kind = "HTTPError" /\ ~Retryable(poll.last)) =>
           /\ ppc = "done"
           /\ poll_result = PollResult("raised", NoDigests,
                                       Exc("HTTPError", ToString(poll.last.status), 0))
    /\ Retryable(poll.last) =>
           /\ poll_result.exc.type # "HTTPError"
           /\ ppc = "done" => TimedOut
    /\ poll_result.exc.type = "HTTPError" =>
           /\ poll.last.kind = "HTTPError"
           /\ poll.sleeps = poll.lookups - 1
    /\ poll.errorLogs = poll.n403

C16_Witness ==
    /\ ppc = "done"
    /\ poll_result.exc = Exc("HTTPError", "500", 0)
    /\ poll.n404 = 1
    /\ poll.n403 = 1
    /\ poll.lookups = 3
    /\ Elapsed > plugin.timeout

\* C17: digests lacking an expected kind are a miss and polling goes on; the
\* poller returns the first response that carries every expected kind, after one
\* lookup per response up to and including it and one sleep between consecutive
\* lookups.
C17_ReturnsFirstSatisfying ==
    /\ poll.last.kind = "digests" =>
           (Satisfies(poll.last.digests) <=>
                poll_result = PollResult("returned", poll.last.digests, NoExc))
    /\ SoftMiss(poll.last) => (ppc = "done" => TimedOut)
    /\ poll_result.kind = "returned" =>
           /\ ppc = "done"
           /\ poll.last.kind = "digests"
           /\ poll.lookups = poll.n404 + poll.n403 + poll.nMiss + 1
           /\ poll.sleeps = poll.lookups - 1

\* [404, 404, {v2: false}, {v2: true}] with a schema 2 manifest expected
C17_Witness ==
    /\ plugin.expect_v2schema2 /\ ~plugin.expect_v2schema2list
    /\ poll.n404 = 2
    /\ poll.nMiss = 1
    /\ poll.n403 = 0
    /\ poll.lookups = 4
    /\ poll.sleeps = 3
    /\ poll_result.kind = "returned"
    /\ poll_result.digests.v2

\* C18: after a retryable failure or a miss, an elapsed time above the timeout ends
\* the polling with CraneTimeoutError, with no sleep and no further lookup: the
\* poller sleeps, and looks up again, only when the check found the elapsed time
\* within the timeout.
C18_TimeoutBeforeSleep ==
    /\ ppc = "sleep" => Elapsed <= plugin.timeout
    /\ (ppc = "call" /\ poll.lookups > 0) =>
           Elapsed <= plugin.timeout + plugin.retry_delay
    /\ (ppc # "call" /\ (Retryable(poll.last) \/ SoftMiss(poll.last))
        /\ Elapsed > plugin.timeout) => TimedOut
    /\ TimedOut =>
           /\ ppc = "done"
           /\ Retryable(poll.last) \/ SoftMiss(poll.last)
           /\ Elapsed > plugin.timeout
           /\ poll.sleeps = poll.lookups - 1

C18_Witness ==
    /\ TimedOut
    /\ poll.lookups = 3
    /\ poll.sleeps = 2
    /\ SoftMiss(poll.last)
    /\ plugin.retry_delay = 2

\* C19 (as amended): the detail of the timeout failure is the configured timeout,
\* "<timeout> seconds exceeded", a number the elapsed time is above.
C19_DetailIsConfiguredTimeout ==
    TimedOut =>
        /\ poll_result.exc.msg = ToString(plugin.timeout) \o " seconds exceeded"
        /\ Elapsed > plugin.timeout

\* C19 (as stated): the detail of the timeout failure holds the number of seconds
\* that elapsed since polling started.
C19_DetailIsElapsed ==
    TimedOut => poll_result.exc.msg = ToString(Elapsed) \o " seconds exceeded"

C19_Witness ==
    /\ TimedOut
    /\ plugin.timeout = 1
    /\ Elapsed = 3
    /\ poll_result.exc.msg = "1 seconds exceeded"

\* C20: with a retry delay above 0, by which every sleep advances the clock, and
\* lookups that return, the polling ends, with digests, an HTTP error or a
\* timeout, after at most timeout / retry_delay + 2 lookups.
C20_Terminates ==
    /\ (plugin.retry_delay > 0) => <>(ppc = "done")
    /\ [](plugin.retry_delay > 0 =>
             /\ poll.lookups <= (plugin.timeout \div plugin.retry_delay) + 2
             /\ ppc = "done" => poll_result.kind \in {"returned", "raised"})

C20_Witness ==
    /\ plugin.retry_delay = 2
    /\ plugin.timeout = 3
    /\ ppc = "done"
    /\ TimedOut
    /\ poll.lookups = 3
    /\ poll.n403 = 1
    /\ poll.n404 = 1
    /\ poll.nMiss = 1

(***************************************************************************)
(* Further claims about _pull_and_tag_image (Spec)                         *)
(***************************************************************************)
\* C23: a call that ends by raising a pull failure raises the first pull failure
\* of the call, and no call sees more than two pull failures; so it is when the
\* first failure was followed by a successful pull of library/<repo>, the tag
\* found the image gone, and the pull made again failed.
C23_FirstPullFailurePropagated ==
    /\ hist.nPullFails <= 2
    /\ (hist.result = "raised" /\ raised.type = "RetryGeneratorException") =>
           /\ raised = hist.firstFail
           /\ raised.pull = 1
           /\ ~hist.lastPullOk
           /\ hist.nPullFails \in {1, 2}

C23_Witness ==
    /\ hist.result = "raised"
    /\ raised = PullExc(1)
    /\ hist.start.namespace = None
    /\ hist.nPullFails = 2
    /\ hist.nPulls = 3
    /\ hist.nNotFound = 1
    /\ hist.lastPull = Library(hist.start)

\* C24: a call makes at most 20 pulls; a tag is only attempted on the reference
\* whose pull has just succeeded in the same iteration, once per successful pull;
\* the namespace retry uses up an iteration, so that an unnamespaced image with a
\* failed pull gets at most 19 tag attempts.
C24_AttemptBudget ==
    /\ hist.nPulls <= 20
    /\ pc = "tag" => hist.lastPullOk /\ hist.lastPull = image
    /\ hist.nTags + (IF pc = "tag" THEN 1 ELSE 0) = hist.nPulls - hist.nPullFails
    /\ hist.result = "returned" => hist.tagged.src = to_str(hist.lastPull)
    /\ (hist.start.namespace = None /\ hist.nPullFails >= 1) => hist.nTags <= 19

C24_Witness ==
    /\ hist.result = "raised"
    /\ raised = TooManyAttempts
    /\ hist.start.namespace = None
    /\ hist.nPullFails = 1
    /\ hist.nPulls = 20
    /\ hist.nTags = 19
    /\ hist.nNotFound = 19
    /\ hist.lastPull = Library(hist.start)

(***************************************************************************)
(* Further claims about retry_if_not_found (SpecPoll)                      *)
(***************************************************************************)
\* C25: the polling never ends without a lookup, whatever the timeout; digests
\* that carry the expected kinds are returned however much time has elapsed; a
\* timeout is only raised right after a 404, a 403 or a miss; an elapsed time
\* equal to the timeout is still within it.
C25_TimeoutOnlyAfterMiss ==
    /\ ppc \in {"sleep", "done"} => poll.lookups >= 1
    /\ (poll.last.kind = "digests" /\ Satisfies(poll.last.digests)) =>
           /\ ppc = "done"
           /\ poll_result.kind = "returned"
    /\ TimedOut => Retryable(poll.last) \/ SoftMiss(poll.last)
    /\ Elapsed = plugin.timeout => ~TimedOut
    /\ (Elapsed = plugin.timeout /\ ppc # "call"
        /\ (Retryable(poll.last) \/ SoftMiss(poll.last))) => ppc = "sleep"

C25_Witness ==
    /\ plugin.timeout = 0
    /\ Elapsed = 0
    /\ ppc = "sleep"
    /\ poll.lookups = 1
    /\ poll.last.status = 404

(***************************************************************************)
(* Claims about PulpPullPlugin.run (SpecPulp)                              *)
(***************************************************************************)
\* run() got past set_manifest_list_expectations
Derived ==
    /\ rpc \notin {"idle", "start"}
    /\ ~wf.build_process_failed
    /\ run_result.exc # Exc("KeyError", "platform", 0)

\* every expected platform has an architecture, and none has amd64
AllHaveArch ==
    \A i \in DOMAIN cfg.platforms : \E d \in cfg.descriptors.pairs : d[1] = cfg.platforms[i]
NoAmd64 ==
    \A i \in DOMAIN cfg.platforms : <<cfg.platforms[i], "amd64">> \notin cfg.descriptors.pairs

RunReturned == rpc = "done" /\ run_result.kind = "returned"

\* C21 (as amended): the list-only mode is entered exactly when group_manifests
\* produced a result, the platform list is not empty, the platform descriptors
\* are defined and every expected platform maps to an architecture other than
\* amd64; it drops the schema 2 expectation and keeps the manifest list one, so
\* that digests with a manifest list are returned whether or not they have v2; and
\* with server-side sync a run that returns then reports the manifest-list media
\* type alone, pulls nothing and leaves the image ID as it was.
C21_ListOnlyDerivation ==
    Derived =>
        /\ plugin.expect_v2schema2list_only <=>
               (/\ wf.grouped /\ Len(cfg.platforms) > 0 /\ cfg.descriptors.defined
                /\ AllHaveArch /\ NoAmd64)
        /\ plugin.expect_v2schema2list_only =>
               /\ ~plugin.expect_v2schema2
               /\ plugin.expect_v2schema2list
               /\ poll_result.kind = "returned" => poll_result.digests.v2_list
               /\ (poll.last.kind = "digests" /\ poll.last.digests.v2_list) =>
                      poll_result = PollResult("returned", poll.last.digests, NoExc)
               /\ (wf.server_side_sync /\ RunReturned) =>
                      /\ run_result.value = <<MEDIA_TYPE_DOCKER_V2_MANIFEST_LIST>>
                      /\ image_id = BuiltId
                      /\ crane = NoCrane

\* C21 (as stated): expected platforms that exclude amd64 put the poller in the
\* list-only mode.
C21_ListOnlyWheneverAmd64Excluded ==
    (Derived /\ Len(cfg.platforms) > 0 /\ cfg.descriptors.defined
     /\ AllHaveArch /\ NoAmd64) => plugin.expect_v2schema2list_only

C21_Witness ==
    /\ RunReturned
    /\ plugin.expect_v2schema2list_only
    /\ cfg.platforms = <<"ppc64le">>
    /\ poll.lookups = 2
    /\ poll_result.digests = ManifestDigest(TRUE, FALSE, TRUE)
    /\ media_types = <<MEDIA_TYPE_DOCKER_V2_SCHEMA1, MEDIA_TYPE_DOCKER_V2_MANIFEST_LIST>>
    /\ run_result.value = <<MEDIA_TYPE_DOCKER_V2_MANIFEST_LIST>>
    /\ image_id = BuiltId
    /\ crane.pulls = 0

\* C22 as stated: with server-side sync, polled digests with v2 end run() with no
\* pull, no inspection and the image ID as it was; the image ID only changes
\* where the image was pulled and inspected, to the Id the inspection reported;
\* and when a schema 2 manifest is expected outside the list-only mode, a run
\* that returns has pulled nothing.  The return for a failed build (lines
\* 115-118) sets the image ID to None with nothing pulled.
C22_ImageIdChangedOnlyByPull ==
    /\ (wf.server_side_sync /\ rpc \notin {"start", "poll"}
        /\ poll_result.kind = "returned" /\ poll_result.digests.v2) =>
           /\ RunReturned
           /\ crane = NoCrane
           /\ image_id = BuiltId
    /\ image_id # BuiltId =>
           /\ image_id = InspectedId
           /\ crane = [pulls |-> 1, pulled |-> {PullspecName}, inspects |-> 1]
           /\ RunReturned
    /\ (rpc = "done" /\ crane.inspects = 1 /\ run_result.kind = "returned") =>
           image_id = InspectedId
    /\ (wf.server_side_sync /\ Derived /\ RunReturned
        /\ plugin.expect_v2schema2 /\ ~plugin.expect_v2schema2list_only) =>
           crane.pulls = 0

\* C22 (as amended): the image ID changes in two places only.  A run for a
\* failed build sets it to None and returns the empty list, with no lookup, no
\* pull and no inspection; the image ID is None in no other case.  A run for a
\* build that did not fail changes it only where the image was pulled and
\* inspected, to the Id the inspection reported; with server-side sync, polled
\* digests with v2 end such a run with no pull, no inspection and the image ID as
\* it was; and when a schema 2 manifest is expected outside the list-only mode,
\* such a run, when it returns, has pulled nothing.
C22_ImageIdOnlyFromPull ==
    /\ image_id \in {BuiltId, None, InspectedId}
    /\ image_id = None <=> (wf.build_process_failed /\ rpc = "done")
    /\ wf.build_process_failed =>
           /\ crane = NoCrane
           /\ poll = NoLookups
           /\ rpc \in {"start", "done"}
           /\ rpc = "done" => run_result = RunResult("returned", <<>>, NoExc)
    /\ ~wf.build_process_failed =>
           /\ (wf.server_side_sync /\ rpc \notin {"start", "poll"}
               /\ poll_result.kind = "returned" /\ poll_result.digests.v2) =>
                  /\ RunReturned
                  /\ crane = NoCrane
                  /\ image_id = BuiltId
           /\ image_id # BuiltId =>
                  /\ image_id = InspectedId
                  /\ crane = [pulls |-> 1, pulled |-> {PullspecName}, inspects |-> 1]
                  /\ RunReturned
           /\ (rpc = "done" /\ crane.inspects = 1 /\ run_result.kind = "returned") =>
                  image_id = InspectedId
           /\ (wf.server_side_sync /\ Derived /\ RunReturned
               /\ plugin.expect_v2schema2 /\ ~plugin.expect_v2schema2list_only) =>
                  crane.pulls = 0

C22_Witness ==
    /\ RunReturned
    /\ wf.server_side_sync
    /\ plugin.expect_v2schema2
    /\ ~plugin.expect_v2schema2list_only
    /\ poll.nMiss = 1
    /\ poll_result.digests = ManifestDigest(TRUE, TRUE, TRUE)
    /\ run_result.value = <<MEDIA_TYPE_DOCKER_V1, MEDIA_TYPE_DOCKER_V2_MANIFEST_LIST,
                            MEDIA_TYPE_DOCKER_V2_SCHEMA1, MEDIA_TYPE_DOCKER_V2_SCHEMA2>>
    /\ image_id = BuiltId
    /\ crane = NoCrane

\* C26: when run() has ended, every image it pulled has been handed to
\* defer_removal.
C26_PulledImageDeferred ==
    rpc = "done" => crane.pulled \subseteq deferred

============================================================================
